---- MODULE Spec2Model ----
(***************************************************************************)
(* Model of the single-walker variational Monte Carlo engine of hVMC       *)
(* (src/hmodvmc.cpp, class HubbardModelVMC).                               *)
(*                                                                         *)
(* Numbers.  The code computes in floating point (fptype).  The model      *)
(* computes exactly: matrix entries are rationals <<num, den>> in lowest   *)
(* terms, and a value q * exp(m) (q rational, m an integer) is the record  *)
(* [q |-> q, e |-> m].  Rounding error is therefore outside the model.     *)
(***************************************************************************)
EXTENDS Integers, Sequences, FiniteSets, TLC

(***************************************************************************)
(* Bounds of the explored behaviours.                                      *)
(***************************************************************************)
\* largest recompute threshold handed to the constructor
MaxThreshold == 2
\* largest value the completed-sweep counter is driven to
MaxSweeps == 2
\* largest argument of equilibrate()
MaxEquil == 1
\* largest number of get_current() calls followed on one cache
MaxCalls == 3
\* number of raw draws a seeded random source holds
MaxDraws == 6

(***************************************************************************)
(* Exact rational arithmetic.                                              *)
(***************************************************************************)
Abs(x) == IF x < 0 THEN -x ELSE x

RECURSIVE GCD(_, _)
GCD(a, b) == IF b = 0 THEN a ELSE GCD(b, a % b)

\* the rational n/d (d # 0) in lowest terms with a positive denominator
Rat(n, d) ==
  LET g == GCD(Abs(n), Abs(d))
      sg == IF d < 0 THEN -1 ELSE 1
  IN  << (sg * n) \div g, (sg * d) \div g >>

RInt(n) == << n, 1 >>
RZero == << 0, 1 >>
ROne == << 1, 1 >>
RAdd(a, b) == Rat(a[1] * b[2] + b[1] * a[2], a[2] * b[2])
RSub(a, b) == Rat(a[1] * b[2] - b[1] * a[2], a[2] * b[2])
RMul(a, b) == Rat(a[1] * b[1], a[2] * b[2])
\* a / b for b # 0 (the callers guard against b = 0)
RDiv(a, b) == Rat(a[1] * b[2], a[2] * b[1])
RLt(a, b) == a[1] * b[2] < b[1] * a[2]
RLe(a, b) == a[1] * b[2] <= b[1] * a[2]

RECURSIVE RSum(_, _, _)
\* sum of f[lo], ..., f[hi - 1] for a function f into the rationals
RSum(f, lo, hi) == IF lo >= hi THEN RZero ELSE RAdd(f[lo], RSum(f, lo + 1, hi))

RECURSIVE IPow(_, _)
IPow(b, x) == IF x = 0 THEN 1 ELSE b * IPow(b, x - 1)

(***************************************************************************)
(* Dense linear algebra (Eigen).  A matrix is a function of its row index  *)
(* to functions of its column index, both counted from 0.                  *)
(***************************************************************************)
Minor(A, r, c, n) ==
  [i \in 0..(n - 2) |->
    [j \in 0..(n - 2) |->
      A[IF i < r THEN i ELSE i + 1][IF j < c THEN j ELSE j + 1]]]

RECURSIVE Det(_, _)
\* determinant of the n x n matrix A, by expansion along row 0
Det(A, n) ==
  IF n = 0 THEN ROne
  ELSE IF n = 1 THEN A[0][0]
  ELSE RSum([j \in 0..(n - 1) |->
               RMul(RMul(RInt(IF j % 2 = 0 THEN 1 ELSE -1), A[0][j]),
                    Det(Minor(A, 0, j, n), n - 1))], 0, n)

\* FullPivLU::isInvertible(), in exact arithmetic
isInvertible(A, n) == Det(A, n) # RZero

\* FullPivLU::inverse(), in exact arithmetic: adjugate over determinant
Inverse(A, n) ==
  LET d == Det(A, n)
  IN  [i \in 0..(n - 1) |->
        [j \in 0..(n - 1) |->
          RDiv(RMul(RInt(IF (i + j) % 2 = 0 THEN 1 ELSE -1),
                    Det(Minor(A, j, i, n), n - 1)), d)]]

\* the product A * B of an r x m matrix and an m x c matrix
MatMul(A, B, r, m, c) ==
  [i \in 0..(r - 1) |->
    [j \in 0..(c - 1) |->
      RSum([x \in 0..(m - 1) |-> RMul(A[i][x], B[x][j])], 0, m)]]

(***************************************************************************)
(* Numbers of the form q * exp(m).  exp() of the code is kept symbolic:    *)
(* Exp(m) stands for the real number e^m, so products and quotients of     *)
(* exponentials are exact, and e^a = e^b only when a = b.                  *)
(***************************************************************************)
ENum(q, m) == IF q = RZero THEN [q |-> RZero, e |-> 0] ELSE [q |-> q, e |-> m]
Exp(m) == ENum(ROne, m)
EMul(a, b) == ENum(RMul(a.q, b.q), a.e + b.e)
\* a / b for b # 0; exponentials are never 0
EDiv(a, b) == ENum(RDiv(a.q, b.q), a.e - b.e)
EScale(a, r) == ENum(RMul(a.q, r), a.e)

\* rational lower and upper bounds of e^m, m in 1..12, four significant digits
ExpLo ==
  << <<2718, 1000>>, <<7389, 1000>>, <<2008, 100>>, <<5459, 100>>,
     <<1484, 10>>, <<4034, 10>>, <<1096, 1>>, <<2980, 1>>, <<8103, 1>>,
     <<22026, 1>>, <<59874, 1>>, <<162754, 1>> >>
ExpHi ==
  << <<2719, 1000>>, <<7390, 1000>>, <<2009, 100>>, <<5460, 100>>,
     <<1485, 10>>, <<4035, 10>>, <<1097, 1>>, <<2981, 1>>, <<8104, 1>>,
     <<22027, 1>>, <<59875, 1>>, <<162755, 1>> >>

\* evaluation fails (no such value) when the bounds above cannot decide
Undecided == CHOOSE b \in {} : TRUE

\* x < e^m for a rational x >= 0 and an integer m
LtExp(x, m) ==
  IF m = 0 THEN RLt(x, ROne)
  ELSE IF m > 0
    THEN IF RLe(x, ExpLo[m]) THEN TRUE
         ELSE IF RLe(ExpHi[m], x) THEN FALSE ELSE Undecided
    ELSE IF x = RZero THEN TRUE
         ELSE IF RLe(ExpHi[-m], RDiv(ROne, x)) THEN TRUE
         ELSE IF RLe(RDiv(ROne, x), ExpLo[-m]) THEN FALSE ELSE Undecided

\* x > e^m for a rational x >= 0 and an integer m
GtExp(x, m) == IF x = RZero THEN FALSE ELSE LtExp(RDiv(ROne, x), 0 - m)

\* The fptype value of a product of rounded factors lies next to the exact
\* value q * e^m: below it (rnd < 0), on it, or above it (rnd > 0).  A
\* comparison with a number the exact value differs from comes out as for
\* the exact value; a comparison with the exact value itself follows rnd.
\* A value that is exactly 0 is 0 in fptype too.
Rounded(x, rnd) ==
  [q |-> x.q, e |-> x.e, rnd |-> IF x.q = RZero THEN 0 ELSE rnd]

\* the largest fptype below 1, 1 - 2^-24: the largest draw on [0,1)
NearOne == << 16777215, 16777216 >>

\* p >= 1.f for the fptype p next to q * e^m, q >= 0 (q * e^m = 1 only when
\* q = 1 and m = 0)
GeOne(p) ==
  IF p.q = RZero THEN FALSE
  ELSE IF p.e = 0
    THEN IF p.q = ROne THEN p.rnd >= 0 ELSE RLe(ROne, p.q)
    ELSE LtExp(RDiv(ROne, p.q), p.e)

\* u < p for a draw u and the fptype p next to q * e^m, q >= 0; no fptype
\* lies between NearOne and 1
LessThan(u, p) ==
  IF p.q = RZero THEN FALSE
  ELSE IF u = NearOne THEN GeOne(p)
  ELSE IF p.e = 0 /\ p.q = u THEN p.rnd > 0
  ELSE LtExp(RDiv(u, p.q), p.e)

(***************************************************************************)
(* State of one walker and of its driver.                                  *)
(***************************************************************************)
VARIABLES
  lat,                      \* lattice: [L |-> number of sites]
  M,                        \* orbital matrix, 2L x N
  v,                        \* Jastrow table, L x L
  update_hop_maxdist,       \* largest hopping distance of a proposal
  t,                        \* hopping amplitudes, t[X] for distance class X
  U,                        \* on-site interaction strength
  updates_until_WT_recalc,  \* recompute threshold
  econf,                    \* electron configuration
  W,                        \* ratio matrix, 2L x N
  T,                        \* correlation vector, length L
  completed_mcsteps,        \* completed sweeps
  updates_since_WT_recalc,  \* quick updates since the last recalculation
  pc,                       \* "construct", "idle", "mcs", "equilibrate", "aborted"
  s,                        \* loop variable of mcs()
  n,                        \* loop variable of equilibrate()
  N_mcs_equil,              \* argument of the running equilibrate()
  caller,                   \* who called the running mcs(): "user", "equilibrate"
  last,                     \* history: the metstep() that has just run
  hist,                     \* history of the driver calls
  rng,                      \* random source: the raw draws still to come
  replay,                   \* history: the walk of a first walker, for a second
  el,                       \* history: the calls of E_l() since the last step
  cache,                    \* ObservableCache: [s |-> the entry or Unset]
  model,                    \* ModelManager: [s |-> what s() evaluates to]
  obs_hist                  \* history of the get_current() calls

vars == << lat, M, v, update_hop_maxdist, updates_until_WT_recalc, econf, W, T,
           completed_mcsteps, updates_since_WT_recalc, pc, s, n, N_mcs_equil,
           caller, last, hist, t, U, rng, replay, el, cache, model, obs_hist >>

\* the members that no member function assigns after construction
inputs == << lat, M, v, update_hop_maxdist, updates_until_WT_recalc, t, U >>

\* what the walker's member functions driven by freely chosen draws leave
\* alone: the explicit random source, the observable and the histories kept
\* for them
aside == << rng, replay, el, cache, model, obs_hist >>

(***************************************************************************)
(* Lattice provider: a ring of L sites.  Spin-orbital i < L is site i with *)
(* spin up, spin-orbital i >= L is site i - L with spin down.              *)
(***************************************************************************)
L == lat.L
SpinOrbitals == 0..(2 * L - 1)
Sites == 0..(L - 1)

get_spinup_site(i) == IF i < L THEN i ELSE i - L

get_index_spin(i) == IF i < L THEN "up" ELSE "down"

RingDist(a, b) == LET d == Abs(a - b) IN IF d <= L - d THEN d ELSE L - d

\* the spin-orbitals of k_pos's spin sector at hopping distance X from k_pos
get_Xnn(k_pos, X) ==
  { l \in SpinOrbitals :
      /\ get_index_spin(l) = get_index_spin(k_pos)
      /\ RingDist(get_spinup_site(l), get_spinup_site(k_pos)) = X }

(***************************************************************************)
(* Electron configuration.                                                 *)
(***************************************************************************)
ELECTRON_OCCUPATION_EMPTY == 0
ELECTRON_OCCUPATION_FULL == 1

\* econf.N()
N == econf.electron_number
Electrons == 0..(N - 1)

\* the configuration of Nx electrons on 2 * Lx spin-orbitals that places
\* electron eid on spin-orbital pos[eid]
MakeEconf(pos, Lx, Nx) ==
  [ electron_number |-> Nx,
    electron_pos |-> pos,
    site_occ |-> [i \in 0..(2 * Lx - 1) |->
                    IF \E eid \in 0..(Nx - 1) : pos[eid] = i
                    THEN ELECTRON_OCCUPATION_FULL
                    ELSE ELECTRON_OCCUPATION_EMPTY] ]

\* every placement of Nx electrons on distinct spin-orbitals
distribute_random(Lx, Nx) ==
  { MakeEconf(pos, Lx, Nx) : pos \in
      { f \in [0..(Nx - 1) -> 0..(2 * Lx - 1)] :
          \A a, b \in 0..(Nx - 1) : a # b => f[a] # f[b] } }

get_electron_pos(ec, eid) == ec.electron_pos[eid]
get_site_occ(ec, i) == ec.site_occ[i]

\* the targets a proposal for the electron at k_pos can name
HopTargets(k_pos) == UNION { get_Xnn(k_pos, X) : X \in 1..update_hop_maxdist }

\* the proposal that moves electron k to spin-orbital l
propose_random_hop(ec, k, l) ==
  [ k |-> k, k_pos |-> get_electron_pos(ec, k), l |-> l,
    possible |-> (get_site_occ(ec, l) = ELECTRON_OCCUPATION_EMPTY) ]

do_hop(ec, hop) ==
  [ ec EXCEPT !.electron_pos[hop.k] = hop.l,
              !.site_occ[hop.k_pos] = ELECTRON_OCCUPATION_EMPTY,
              !.site_occ[hop.l] = ELECTRON_OCCUPATION_FULL ]

(***************************************************************************)
(* Constructor arguments explored.                                         *)
(***************************************************************************)
\* M[i][j] = site(i)^j: both spin-orbitals of a site carry the same row, so
\* D is singular exactly when two electrons sit on one site
MSite(Lx, Nx) ==
  [i \in 0..(2 * Lx - 1) |->
    [j \in 0..(Nx - 1) |-> RInt(IPow(IF i < Lx THEN i ELSE i - Lx, j))]]
\* M[i][j] = i^j: every N rows are linearly independent
MIndex(Lx, Nx) ==
  [i \in 0..(2 * Lx - 1) |-> [j \in 0..(Nx - 1) |-> RInt(IPow(i, j))]]

\* M = 0: no configuration has an invertible D
MZero(Lx, Nx) == [i \in 0..(2 * Lx - 1) |-> [j \in 0..(Nx - 1) |-> RZero]]

\* on-site table and a table that is not symmetric
VOnsite(Lx) == [i \in 0..(Lx - 1) |-> [j \in 0..(Lx - 1) |-> IF i = j THEN 1 ELSE 0]]
VUpper(Lx) == [i \in 0..(Lx - 1) |-> [j \in 0..(Lx - 1) |-> IF i < j THEN 1 ELSE 0]]

Walkers ==
  { [L |-> 3, N |-> 2, M |-> MSite(3, 2), v |-> VOnsite(3), maxdist |-> 1,
      t |-> << ROne >>, U |-> ROne],
    [L |-> 3, N |-> 2, M |-> MIndex(3, 2), v |-> VUpper(3), maxdist |-> 1,
      t |-> << ROne >>, U |-> ROne],
    [L |-> 2, N |-> 1, M |-> MIndex(2, 1), v |-> VUpper(2), maxdist |-> 1,
      t |-> << ROne >>, U |-> ROne],
    [L |-> 2, N |-> 3, M |-> MIndex(2, 3), v |-> VOnsite(2), maxdist |-> 1,
      t |-> << ROne >>, U |-> ROne],
    [L |-> 2, N |-> 1, M |-> MZero(2, 1), v |-> VOnsite(2), maxdist |-> 1,
      t |-> << ROne >>, U |-> ROne] }

\* the walkers explored under the full driver
DriverWalkers ==
  { [L |-> 2, N |-> 1, M |-> MIndex(2, 1), v |-> VUpper(2), maxdist |-> 1,
      t |-> << ROne >>, U |-> ROne],
    [L |-> 2, N |-> 2, M |-> MSite(2, 2), v |-> VOnsite(2), maxdist |-> 1,
      t |-> << ROne >>, U |-> ROne] }

\* what a read of the Jastrow table outside its L x L entries can yield
OobReads == { -1 }

\* the uniform draws on [0,1) explored
UDraws == { RZero, Rat(3, 4), NearOne }

\* history value: no metstep() has just run
NoStep ==
  [ ran |-> FALSE, possible |-> FALSE, evaluated |-> FALSE, in_table |-> TRUE,
    by_sites |-> TRUE, zero_ratio |-> FALSE, ge_one |-> FALSE, draws |-> 0,
    below |-> FALSE, ret |-> FALSE, mode |-> "none", failed |-> "none" ]

(***************************************************************************)
(* calc_D, calc_new_W, calc_updated_W, calc_new_T, calc_updated_T          *)
(***************************************************************************)
calc_D(ec) == [eid \in Electrons |-> M[get_electron_pos(ec, eid)]]

\* the value of a matrix entry that is not a finite number
NotFinite == << 1, 0 >>

\* M * D^-1; the result is all NotFinite where the code's assert fails
calc_new_W(ec) ==
  IF isInvertible(calc_D(ec), N)
  THEN MatMul(M, Inverse(calc_D(ec), N), 2 * L, N, N)
  ELSE [i \in SpinOrbitals |-> [j \in Electrons |-> NotFinite]]

\* calc_updated_W without the division by W( hop.l, hop.k )
MutCalcUpdatedW(hop) ==
  [i \in SpinOrbitals |->
    [j \in Electrons |->
      RSub(W[i][j], RMul(W[i][hop.k], RSub(W[hop.l][j], W[hop.k_pos][j])))]]

calc_updated_W(hop) ==
  IF W[hop.l][hop.k] = RZero
  THEN [i \in SpinOrbitals |-> [j \in Electrons |-> NotFinite]]
  ELSE [i \in SpinOrbitals |->
         [j \in Electrons |->
           RSub(W[i][j],
                RMul(RDiv(W[i][hop.k], W[hop.l][hop.k]),
                     RSub(W[hop.l][j], W[hop.k_pos][j])))]]

RECURSIVE ISum(_, _, _)
ISum(f, lo, hi) == IF lo >= hi THEN 0 ELSE f[lo] + ISum(f, lo + 1, hi)

calc_new_T(ec) ==
  [i \in Sites |->
    Exp(ISum([j \in Sites |->
                v[i][j] * (get_site_occ(ec, j) + get_site_occ(ec, j + L))], 0, L))]

\* calc_updated_T with the two table entries exchanged
MutCalcUpdatedT(hop) ==
  [i \in Sites |->
    EMul(T[i], Exp(v[i][get_spinup_site(hop.k_pos)]
                   - v[i][get_spinup_site(hop.l)]))]

calc_updated_T(hop) ==
  [i \in Sites |->
    EMul(T[i], Exp(v[i][get_spinup_site(hop.l)]
                   - v[i][get_spinup_site(hop.k_pos)]))]

(***************************************************************************)
(* The comparisons of the verification build (perform_WT_update).          *)
(***************************************************************************)
RAbs(a) == << Abs(a[1]), a[2] >>

\* fptype is float here: a finite value >= 0 is 0 or m * 2^x with a 24-bit
\* m, 2^23 <= m < 2^24 (the explored magnitudes are far from the ends of
\* the exponent range)
FZero == [m |-> 0, x |-> 0]

RECURSIVE FRound(_, _, _, _)
\* the fptype nearest to (q + r / b) * 2^x, for integers q >= 0 and
\* 0 <= r < b, a tie going to the even m
FRound(q, r, b, x) ==
  IF q = 0 /\ r = 0 THEN FZero
  ELSE IF q >= 2^24
    THEN FRound(q \div 2, (q % 2) * b + r, 2 * b, x + 1)
  ELSE IF q < 2^23
    THEN IF 2 * r >= b THEN FRound(2 * q + 1, 2 * r - b, b, x - 1)
                       ELSE FRound(2 * q, 2 * r, b, x - 1)
  ELSE IF 2 * r > b \/ (2 * r = b /\ q % 2 = 1)
    THEN IF q + 1 = 2^24 THEN [m |-> 2^23, x |-> x + 1]
                         ELSE [m |-> q + 1, x |-> x]
  ELSE [m |-> q, x |-> x]

\* the fptype that holds the rational a >= 0; a literal like 1.01f is the
\* fptype that holds its decimal
Float(a) == FRound(a[1] \div a[2], a[1] % a[2], a[2], 0)

\* f < g
FLt(f, g) ==
  IF g.m = 0 THEN FALSE
  ELSE IF f.m = 0 THEN TRUE
  ELSE f.x < g.x \/ (f.x = g.x /\ f.m < g.m)

\* f + g, rounded
FAdd(f, g) ==
  IF f.m = 0 THEN g
  ELSE IF g.m = 0 THEN f
  ELSE LET hi == IF f.x >= g.x THEN f ELSE g
           lo == IF f.x >= g.x THEN g ELSE f
           d == hi.x - lo.x
       IN  IF d > 25 THEN hi
           ELSE FRound(hi.m + lo.m \div 2^d, lo.m % 2^d, 2^d, hi.x)

\* f / g, rounded, for g > 0
FDiv(f, g) ==
  IF f.m = 0 THEN FZero ELSE FRound(f.m \div g.m, f.m % g.m, g.m, f.x - g.x)

Sign(i) == IF i > 0 THEN 1 ELSE IF i < 0 THEN 0 - 1 ELSE 0

\* the literals of the checks: 0.001f, 0.99f, 1.01f, 0.999f, 1.001f
SumTolerance == Float(Rat(1, 1000))
WRatioAbove == Float(Rat(99, 100))
WRatioBelow == Float(Rat(101, 100))
TRatioAbove == Float(Rat(999, 1000))
TRatioBelow == Float(Rat(1001, 1000))

\* the check of one entry of the updated W against the recalculated W: the
\* build holds the fptype of each entry; a ratio that is negative, or that
\* is not a number (w_chk = 0), is in no window.  Equal entries are held as
\* the same fptype: both are 0, or their ratio is 1.
WEntryChk(w, w_chk) ==
  /\ w # NotFinite
  /\ w_chk # NotFinite
  /\ LET abs_w == Float(RAbs(w))
         abs_w_chk == Float(RAbs(w_chk))
         ratio == FDiv(abs_w, abs_w_chk)
     IN  \/ w = w_chk
         \/ FLt(FAdd(abs_w, abs_w_chk), SumTolerance)
         \/ /\ w_chk # RZero
            /\ Sign(w[1]) = Sign(w_chk[1])
            /\ FLt(ratio, WRatioBelow)
            /\ FLt(WRatioAbove, ratio)

\* rational bounds of the number x = q * e^m, q >= 0
ELo(x) ==
  IF x.e = 0 THEN x.q
  ELSE IF x.e > 0 THEN RMul(x.q, ExpLo[x.e]) ELSE RDiv(x.q, ExpHi[0 - x.e])
EHi(x) ==
  IF x.e = 0 THEN x.q
  ELSE IF x.e > 0 THEN RMul(x.q, ExpHi[x.e]) ELSE RDiv(x.q, ExpLo[0 - x.e])

\* x + y < 0.001f for x, y >= 0 of which one holds an exponential: decided
\* where the sum is away from 0.001 by more than the fptype rounding
SumBelowMilli(x, y) ==
  IF RLe(ROne, ELo(x)) \/ RLe(ROne, ELo(y)) THEN FALSE
  ELSE IF RLe(Rat(2, 1000), ELo(x)) \/ RLe(Rat(2, 1000), ELo(y)) THEN FALSE
  ELSE IF RLt(EHi(x), Rat(1, 2500)) /\ RLt(EHi(y), Rat(1, 2500)) THEN TRUE
  ELSE IF RLt(RAdd(EHi(x), EHi(y)), Rat(999, 1000000)) THEN TRUE
  ELSE IF RLe(Rat(1001, 1000000), RAdd(ELo(x), ELo(y))) THEN FALSE
  ELSE Undecided

\* x / y in the window of the T check, for x, y > 0 of which one holds an
\* exponential: decided where the ratio is away from 0.999 and 1.001 by
\* more than the fptype rounding
RatioInWindow(x, y) ==
  LET ratio == EDiv(x, y) IN
  IF x = y THEN TRUE
  ELSE IF /\ LtExp(RMul(ratio.q, Rat(10000, 10009)), 0 - ratio.e)
          /\ GtExp(RMul(ratio.q, Rat(10000, 9991)), 0 - ratio.e) THEN TRUE
  ELSE IF \/ ~ LtExp(RMul(ratio.q, Rat(10000, 10011)), 0 - ratio.e)
          \/ ~ GtExp(RMul(ratio.q, Rat(10000, 9989)), 0 - ratio.e) THEN FALSE
  ELSE Undecided

\* the check of one entry of the updated T against the recalculated T (the
\* entries of T are exponentials, so neither is 0 or negative); entries
\* without an exponential are compared as the fptype values the build holds
TEntryChk(T_i, T_chk_i) ==
  IF T_i = T_chk_i THEN TRUE
  ELSE IF T_i.e = 0 /\ T_chk_i.e = 0
  THEN LET ratio == FDiv(Float(T_i.q), Float(T_chk_i.q))
       IN  \/ FLt(FAdd(Float(T_i.q), Float(T_chk_i.q)), SumTolerance)
           \/ (FLt(ratio, TRatioBelow) /\ FLt(TRatioAbove, ratio))
  ELSE SumBelowMilli(T_i, T_chk_i) \/ RatioInWindow(T_i, T_chk_i)

(***************************************************************************)
(* perform_WT_update: the new W, T and counter for the accepted hop, with  *)
(* the electron configuration ec that the hop has produced.                *)
(***************************************************************************)
\* the exact recomputation without the reset of the counter
MutRecalcUpdate(ec) ==
  IF isInvertible(calc_D(ec), N)
  THEN [ W |-> calc_new_W(ec), T |-> calc_new_T(ec),
         since |-> updates_since_WT_recalc,
         mode |-> "recalc", failed |-> "none" ]
  ELSE [ W |-> W, T |-> T, since |-> updates_since_WT_recalc,
         mode |-> "recalc", failed |-> "invertible" ]

\* the exact recomputation of perform_WT_update
recalc_update(ec) ==
  IF isInvertible(calc_D(ec), N)
  THEN [ W |-> calc_new_W(ec), T |-> calc_new_T(ec), since |-> 0,
         mode |-> "recalc", failed |-> "none" ]
  ELSE \* the assert of calc_new_W stops the program before W is assigned
       [ W |-> W, T |-> T, since |-> updates_since_WT_recalc,
         mode |-> "recalc", failed |-> "invertible" ]

\* the quick update of perform_WT_update, with the asserts of the
\* verification build
quick_update(hop, ec) ==
  LET W_upd == calc_updated_W(hop)
      W_chk == calc_new_W(ec)
      T_upd == calc_updated_T(hop)
      T_chk == calc_new_T(ec)
      failed ==
        IF ~ isInvertible(calc_D(ec), N) THEN "invertible"
        ELSE IF \E j \in Electrons : \E i \in SpinOrbitals :
                  ~ WEntryChk(W_upd[i][j], W_chk[i][j]) THEN "W"
        ELSE IF \E i \in Sites : ~ TEntryChk(T_upd[i], T_chk[i]) THEN "T"
        ELSE "none"
  IN  \* W is assigned before the first assert, T after the W check, the
      \* counter after the T check
      [ W |-> W_upd,
        T |-> IF failed \in { "invertible", "W" } THEN T ELSE T_upd,
        since |-> IF failed = "none" THEN updates_since_WT_recalc + 1
                  ELSE updates_since_WT_recalc,
        mode |-> "quick",
        failed |-> failed ]

\* perform_WT_update that recalculates only once the counter exceeds the
\* threshold ( > for >= )
MutPerformWTUpdate(hop, ec) ==
  IF updates_since_WT_recalc > updates_until_WT_recalc
  THEN recalc_update(ec)
  ELSE quick_update(hop, ec)

perform_WT_update(hop, ec) ==
  IF updates_since_WT_recalc >= updates_until_WT_recalc
  THEN recalc_update(ec)
  ELSE quick_update(hop, ec)

(***************************************************************************)
(* metstep                                                                 *)
(***************************************************************************)
\* v( i, j ) of the code: the entry of the L x L table, or, for an index
\* outside the table, whatever the read yields (g)
JastrowRead(i, j, g) == IF i \in Sites /\ j \in Sites THEN v[i][j] ELSE g

\* the values the read v( i, j ) can yield
JastrowOutcomes(i, j) ==
  IF i \in Sites /\ j \in Sites
  THEN { v[i][j] }
  ELSE OobReads \cup { v[get_spinup_site(i)][get_spinup_site(j)] }

\* the two indices metstep hands to v for the hop
JastrowIndex(hop) == << hop.l, hop.k_pos >>

R_j(hop, g) ==
  EMul(EDiv(T[get_spinup_site(hop.l)], T[get_spinup_site(hop.k_pos)]),
       Exp(v[0][0] - JastrowRead(JastrowIndex(hop)[1], JastrowIndex(hop)[2], g)))

accept_prob(R, hop) ==
  EScale(EScale(EMul(R, R), W[hop.l][hop.k]), W[hop.l][hop.k])

\* the number of uniform draws the acceptance test consumes
AcceptDraws(p) == IF GeOne(p) THEN 0 ELSE 1

\* the acceptance test with && for ||
MutAcceptAnd(p, u) == GeOne(p) /\ LessThan(u, p)

\* the ways the fptype product of line 130 can lie to the exact x; only a
\* comparison of x with itself asks (with 1.f, or with a draw)
Roundings(x) ==
  IF x.e = 0 /\ x.q \in (({ ROne } \cup UDraws) \ { RZero })
  THEN { 0 - 1, 0, 1 } ELSE { 0 }

\* the acceptance test with u <= p for u < p
MutAcceptLe(p, u) ==
  \/ GeOne(p)
  \/ LessThan(u, p)
  \/ (p.e = 0 /\ u = p.q)

\* the acceptance test, u being the draw when one is consumed
Accept(p, u) == GeOne(p) \/ LessThan(u, p)

\* the Jastrow ratio with the table read at the sites of l and k_pos
RatioBySites(hop) ==
  EMul(EDiv(T[get_spinup_site(hop.l)], T[get_spinup_site(hop.k_pos)]),
       Exp(v[0][0] - v[get_spinup_site(hop.l)][get_spinup_site(hop.k_pos)]))

\* history record of a metstep() that evaluated the acceptance probability
Evaluated(hop, g, p, u, after) ==
  [ ran |-> TRUE, possible |-> TRUE, evaluated |-> TRUE,
    in_table |-> (JastrowIndex(hop)[1] \in Sites /\ JastrowIndex(hop)[2] \in Sites),
    by_sites |-> (R_j(hop, g) = RatioBySites(hop)),
    zero_ratio |-> (W[hop.l][hop.k] = RZero),
    ge_one |-> GeOne(p),
    draws |-> AcceptDraws(p),
    below |-> (AcceptDraws(p) = 1 /\ LessThan(u, p)),
    ret |-> after.ret, mode |-> after.mode, failed |-> after.failed ]

\* metstep that commits the hop before the acceptance test
MutAfterTestCommitFirst(hop, p, u) ==
  IF GeOne(p) \/ LessThan(u, p)
  THEN LET ec == do_hop(econf, hop)
           upd == perform_WT_update(hop, ec)
       IN  [ econf |-> ec, W |-> upd.W, T |-> upd.T,
             since |-> IF upd.failed = "none" THEN upd.since
                       ELSE updates_since_WT_recalc,
             failed |-> upd.failed, ret |-> TRUE, mode |-> upd.mode ]
  ELSE [ econf |-> do_hop(econf, hop), W |-> W, T |-> T,
         since |-> updates_since_WT_recalc,
         failed |-> "none", ret |-> FALSE, mode |-> "none" ]

\* metstep that runs the maintainer before it commits the hop
MutAfterTestUpdateFirst(hop, p, u) ==
  IF GeOne(p) \/ LessThan(u, p)
  THEN LET upd == perform_WT_update(hop, econf)
       IN  [ econf |-> do_hop(econf, hop), W |-> upd.W, T |-> upd.T,
             since |-> IF upd.failed = "none" THEN upd.since
                       ELSE updates_since_WT_recalc,
             failed |-> upd.failed, ret |-> TRUE, mode |-> upd.mode ]
  ELSE [ econf |-> econf, W |-> W, T |-> T,
         since |-> updates_since_WT_recalc,
         failed |-> "none", ret |-> FALSE, mode |-> "none" ]

\* the acceptance test and what follows it: the members after the step,
\* the return value, and the assert that failed, if one did (the counter is
\* incremented after the asserts)
AfterTest(hop, p, u) ==
  IF Accept(p, u)
  THEN LET ec == do_hop(econf, hop)
           upd == perform_WT_update(hop, ec)
       IN  [ econf |-> ec, W |-> upd.W, T |-> upd.T,
             since |-> IF upd.failed = "none" THEN upd.since
                       ELSE updates_since_WT_recalc,
             failed |-> upd.failed, ret |-> TRUE, mode |-> upd.mode ]
  ELSE [ econf |-> econf, W |-> W, T |-> T,
         since |-> updates_since_WT_recalc,
         failed |-> "none", ret |-> FALSE, mode |-> "none" ]

\* metstep that commits the hop before it looks at the feasibility flag
MutMetstepCommitFirst(next_pc) ==
  \E k \in Electrons :
  \E l \in HopTargets(get_electron_pos(econf, k)) :
    LET hop == propose_random_hop(econf, k, l) IN
    IF hop.possible = FALSE
    THEN /\ last' = [NoStep EXCEPT !.ran = TRUE]
         /\ pc' = next_pc
         /\ econf' = do_hop(econf, hop)
         /\ UNCHANGED << W, T, updates_since_WT_recalc >>
    ELSE \E g \in JastrowOutcomes(JastrowIndex(hop)[1], JastrowIndex(hop)[2]) :
         \E rnd \in Roundings(accept_prob(R_j(hop, g), hop)) :
         LET p == Rounded(accept_prob(R_j(hop, g), hop), rnd) IN
         \E u \in (IF AcceptDraws(p) = 0 THEN { RZero } ELSE UDraws) :
           LET after == MutAfterTestCommitFirst(hop, p, u) IN
             /\ econf' = after.econf
             /\ W' = after.W
             /\ T' = after.T
             /\ updates_since_WT_recalc' = after.since
             /\ pc' = (IF after.failed = "none" THEN next_pc ELSE "aborted")
             /\ last' = Evaluated(hop, g, p, u, after)

\* one call of metstep(); after it the driver continues at next_pc, unless
\* an assert of the verification build has failed
metstep(next_pc) ==
  \E k \in Electrons :
  \E l \in HopTargets(get_electron_pos(econf, k)) :
    LET hop == propose_random_hop(econf, k, l) IN
    IF hop.possible = FALSE
    THEN /\ last' = [NoStep EXCEPT !.ran = TRUE]
         /\ pc' = next_pc
         /\ UNCHANGED << econf, W, T, updates_since_WT_recalc >>
    ELSE \E g \in JastrowOutcomes(JastrowIndex(hop)[1], JastrowIndex(hop)[2]) :
         \E rnd \in Roundings(accept_prob(R_j(hop, g), hop)) :
         LET p == Rounded(accept_prob(R_j(hop, g), hop), rnd) IN
         \E u \in (IF AcceptDraws(p) = 0 THEN { RZero } ELSE UDraws) :
           LET after == AfterTest(hop, p, u) IN
             /\ econf' = after.econf
             /\ W' = after.W
             /\ T' = after.T
             /\ updates_since_WT_recalc' = after.since
             /\ pc' = (IF after.failed = "none" THEN next_pc ELSE "aborted")
             /\ last' = Evaluated(hop, g, p, u, after)

(***************************************************************************)
(* Construction                                                            *)
(***************************************************************************)
\* history values: no second walker, no E_l() call, no get_current() call
NoReplay ==
  [run |-> 0, idx |-> 0, trace |-> << >>, start |-> << >>, fp |-> << >>,
   mem |-> << >>]
NoCall == [calls |-> 0, ret |-> << >>, stamp |-> 0, same |-> TRUE, mem |-> << >>]
\* the empty entry of a cache (an optional vector that holds none)
Unset == [type |-> "unset", coeffs |-> << >>]
NoVector == [type |-> "fptype", coeffs |-> << >>]
NoObservation == [calls |-> 0, evaluations |-> 0, first |-> << >>, ret |-> << >>]

\* the members and the history variables as the constructor's initializer
\* list leaves them, for a walker w and a recompute threshold thr
Constructed(w, thr) ==
  /\ lat = [L |-> w.L]
  /\ M = w.M
  /\ v = w.v
  /\ update_hop_maxdist = w.maxdist
  /\ t = w.t
  /\ U = w.U
  /\ econf \in distribute_random(w.L, w.N)
  /\ updates_until_WT_recalc = thr
  /\ W = << >>
  /\ T = << >>
  /\ completed_mcsteps = 0
  /\ updates_since_WT_recalc = 0
  /\ pc = "construct"
  /\ s = 0
  /\ n = 0
  /\ N_mcs_equil = 0
  /\ caller = "user"
  /\ last = NoStep
  /\ hist = [sweeps |-> 0, entry |-> 0, steps |-> 0, resampled |-> FALSE]
  /\ rng = << >>
  /\ replay = NoReplay
  /\ el = NoCall
  /\ cache = [s |-> Unset]
  /\ model = [s |-> NoVector]
  /\ obs_hist = NoObservation

\* the recompute thresholds explored
Thresholds == { 0, 1, MaxThreshold }

Init == \E w \in Walkers : \E thr \in Thresholds : Constructed(w, thr)

InitDriver == \E w \in DriverWalkers : \E thr \in Thresholds : Constructed(w, thr)

\* the constructor's loop: D is not invertible, distribute the electrons anew
ConstructResample ==
  /\ pc = "construct"
  /\ isInvertible(calc_D(econf), N) = FALSE
  /\ econf' \in distribute_random(L, N)
  /\ hist' = [hist EXCEPT !.resampled = TRUE]
  /\ UNCHANGED << inputs, aside, W, T, completed_mcsteps, updates_since_WT_recalc,
                  pc, s, n, N_mcs_equil, caller, last >>

\* the constructor with its do-while loop run at most once
MutConstructFinish ==
  /\ pc = "construct"
  /\ isInvertible(calc_D(econf), N) \/ hist.resampled
  /\ W' = calc_new_W(econf)
  /\ T' = calc_new_T(econf)
  /\ pc' = "idle"
  /\ UNCHANGED << inputs, aside, econf, completed_mcsteps, updates_since_WT_recalc,
                  s, n, N_mcs_equil, caller, last, hist >>

\* the constructor's end: D is invertible, W = M * D^-1 and T from scratch
ConstructFinish ==
  /\ pc = "construct"
  /\ isInvertible(calc_D(econf), N)
  /\ W' = MatMul(M, Inverse(calc_D(econf), N), 2 * L, N, N)
  /\ T' = calc_new_T(econf)
  /\ pc' = "idle"
  /\ UNCHANGED << inputs, aside, econf, completed_mcsteps, updates_since_WT_recalc,
                  s, n, N_mcs_equil, caller, last, hist >>

(***************************************************************************)
(* mcs and equilibrate                                                     *)
(***************************************************************************)
\* the loop of mcs() one iteration short
MutMcsContinue(sx) == sx + 1 < N

\* equilibrate() without the subtraction
MutEquilibrateCounter(c, k) == c

\* the loop condition of mcs()
mcs_continue(sx) == sx < N

\* the counter after the loop of equilibrate( k )
equilibrate_counter(c, k) == c - k

\* the user calls mcs()
CallMcs ==
  /\ pc = "idle"
  /\ completed_mcsteps < MaxSweeps
  /\ pc' = "mcs"
  /\ s' = 0
  /\ caller' = "user"
  /\ last' = NoStep
  /\ hist' = [hist EXCEPT !.steps = 0, !.resampled = FALSE]
  /\ UNCHANGED << inputs, aside, econf, W, T, completed_mcsteps,
                  updates_since_WT_recalc, n, N_mcs_equil >>

\* one iteration of the loop of mcs()
McsStep ==
  /\ pc = "mcs"
  /\ mcs_continue(s)
  /\ metstep("mcs")
  /\ s' = s + 1
  /\ hist' = [hist EXCEPT !.steps = @ + 1]
  /\ UNCHANGED << inputs, aside, completed_mcsteps, n, N_mcs_equil, caller >>

\* the loop of mcs() is over: count the sweep and return to the caller
McsReturn ==
  /\ pc = "mcs"
  /\ ~ mcs_continue(s)
  /\ completed_mcsteps' = completed_mcsteps + 1
  /\ pc' = (IF caller = "user" THEN "idle" ELSE "equilibrate")
  /\ n' = (IF caller = "user" THEN n ELSE n + 1)
  /\ hist' = (IF caller = "user" THEN [hist EXCEPT !.sweeps = @ + 1] ELSE hist)
  /\ last' = NoStep
  /\ UNCHANGED << inputs, aside, econf, W, T, updates_since_WT_recalc, s,
                  N_mcs_equil, caller >>

\* the user calls equilibrate( k )
CallEquilibrate ==
  /\ pc = "idle"
  /\ \E k \in 0..MaxEquil :
       /\ completed_mcsteps + k <= MaxSweeps
       /\ N_mcs_equil' = k
  /\ pc' = "equilibrate"
  /\ n' = 0
  /\ hist' = [hist EXCEPT !.entry = completed_mcsteps, !.resampled = FALSE]
  /\ last' = NoStep
  /\ UNCHANGED << inputs, aside, econf, W, T, completed_mcsteps,
                  updates_since_WT_recalc, s, caller >>

\* one iteration of the loop of equilibrate(): it calls mcs()
EquilibrateStep ==
  /\ pc = "equilibrate"
  /\ n < N_mcs_equil
  /\ pc' = "mcs"
  /\ s' = 0
  /\ caller' = "equilibrate"
  /\ hist' = [hist EXCEPT !.steps = 0]
  /\ UNCHANGED << inputs, aside, econf, W, T, completed_mcsteps,
                  updates_since_WT_recalc, n, N_mcs_equil, last >>

\* the loop of equilibrate() is over: take its sweeps off the counter
EquilibrateReturn ==
  /\ pc = "equilibrate"
  /\ ~ (n < N_mcs_equil)
  /\ completed_mcsteps' = equilibrate_counter(completed_mcsteps, N_mcs_equil)
  /\ pc' = "idle"
  /\ UNCHANGED << inputs, aside, econf, W, T, updates_since_WT_recalc, s, n,
                  N_mcs_equil, caller, last, hist >>

\* the user only calls mcs()
Next ==
  \/ ConstructResample
  \/ ConstructFinish
  \/ CallMcs
  \/ McsStep
  \/ McsReturn

\* the user calls mcs() and equilibrate()
NextDriver ==
  \/ ConstructResample
  \/ ConstructFinish
  \/ CallMcs
  \/ McsStep
  \/ McsReturn
  \/ CallEquilibrate
  \/ EquilibrateStep
  \/ EquilibrateReturn

\* every explored walker, driven by sweeps
Spec == Init /\ [][Next]_vars

\* the small walkers, driven by sweeps and equilibrations
SpecDriver == InitDriver /\ [][NextDriver]_vars

(***************************************************************************)
(* The walk of a seeded walker.  The random source is a sequence of raw     *)
(* draws fixed by the seed; every distribution takes the next raw draw.     *)
(* A first walker runs its sweeps and records the state each metstep()      *)
(* leaves; a second walker is then set up with the same members and the     *)
(* same random source and runs the same sweeps.                             *)
(***************************************************************************)
\* the raw draws explored
RawDraws == { 0, 1 }

\* the value a uniform integer distribution over m values makes of the draw r
UniformInt(r, m) == r % m

\* the value uniform_real_distribution( 0.f, 1.f ) makes of the draw r: the
\* two draws stand for the smallest and the largest output of the engine
UniformReal(r) == IF r = 0 THEN RZero ELSE NearOne

RECURSIVE NthOf(_, _)
\* the element of the set S of numbers with i smaller elements
NthOf(S, i) ==
  LET m == CHOOSE x \in S : \A y \in S : x <= y
  IN  IF i = 0 THEN m ELSE NthOf(S \ { m }, i - 1)

\* the walkers explored with a seeded random source
SeededWalkers ==
  { [L |-> 2, N |-> 2, M |-> MIndex(2, 2), v |-> VOnsite(2), maxdist |-> 1,
      t |-> << ROne >>, U |-> ROne],
    \* a walker whose every spin-up hop has the exact accept_prob 1
    [L |-> 2, N |-> 1, M |-> MIndex(2, 1), v |-> VOnsite(2), maxdist |-> 1,
      t |-> << ROne >>, U |-> ROne] }

\* a walker right after its construction with a random source that has left
\* the electrons in a configuration of invertible D
InitSeeded ==
  \E w \in SeededWalkers : \E thr \in { 0, MaxThreshold } :
  \E ec \in distribute_random(w.L, w.N) :
  \E tape \in [1..MaxDraws -> RawDraws] :
    /\ lat = [L |-> w.L]
    /\ M = w.M
    /\ v = w.v
    /\ update_hop_maxdist = w.maxdist
    /\ t = w.t
    /\ U = w.U
    /\ econf = ec
    /\ updates_until_WT_recalc = thr
    /\ isInvertible(calc_D(ec), N)
    /\ W = calc_new_W(ec)
    /\ T = calc_new_T(ec)
    /\ completed_mcsteps = 0
    /\ updates_since_WT_recalc = 0
    /\ pc = "idle"
    /\ s = 0
    /\ n = 0
    /\ N_mcs_equil = 0
    /\ caller = "user"
    /\ last = NoStep
    /\ hist = [sweeps |-> 0, entry |-> 0, steps |-> 0, resampled |-> FALSE]
    /\ rng = tape
    /\ replay = [run |-> 1, idx |-> 0, trace |-> << >>,
                 start |-> [econf |-> ec, rng |-> tape], fp |-> << >>,
                 mem |-> << >>]
    /\ el = NoCall
    /\ cache = [s |-> Unset]
    /\ model = [s |-> NoVector]
    /\ obs_hist = NoObservation

\* the values the read v( i, j ) can yield in a seeded walk: the table and
\* the memory around it do not change, so an index pair read before, by this
\* walker or by the first one, yields what it yielded then
SeededOutcomes(i, j) ==
  IF << i, j >> \in DOMAIN replay.mem THEN { replay.mem[<< i, j >>] }
  ELSE JastrowOutcomes(i, j)

\* The arithmetic of a build is a function of the members it holds.  The
\* first walker's accept_prob may lie on any side of the exact value in any
\* step; the second walker, which has held the first walker's members so
\* far, computes in its step what the first walker computed in that step.
RoundingsReplayed(x) ==
  IF Roundings(x) = { 0 } THEN { 0 }
  ELSE IF replay.run = 2 /\ replay.idx < Len(replay.fp)
    THEN { replay.fp[replay.idx + 1] }
  ELSE Roundings(x)

\* replay after a step: the first walker records the state the step leaves
\* and the side of its rounding; what the read of v has yielded is kept
Recorded(rnd, reads) ==
  [replay EXCEPT
     !.idx = @ + 1,
     !.trace = IF replay.run = 1
               THEN Append(@, [econf |-> econf', W |-> W', T |-> T',
                               since |-> updates_since_WT_recalc',
                               ret |-> last'.ret,
                               left |-> Len(rng')])
               ELSE @,
     !.fp = IF replay.run = 1 THEN Append(@, rnd) ELSE @,
     !.mem = [rd \in DOMAIN @ \cup DOMAIN reads |->
                IF rd \in DOMAIN reads THEN reads[rd] ELSE @[rd]]]

\* one call of metstep() with the draws taken from the random source: the
\* proposal takes two (the electron, the target), the acceptance test one
\* when it draws
metstep_seeded(next_pc) ==
  /\ Len(rng) >= 3
  /\ LET k == UniformInt(rng[1], N)
         targets == HopTargets(get_electron_pos(econf, k))
         l == NthOf(targets, UniformInt(rng[2], Cardinality(targets)))
         hop == propose_random_hop(econf, k, l)
     IN  IF hop.possible = FALSE
         THEN /\ last' = [NoStep EXCEPT !.ran = TRUE]
              /\ pc' = next_pc
              /\ rng' = SubSeq(rng, 3, Len(rng))
              /\ UNCHANGED << econf, W, T, updates_since_WT_recalc >>
              /\ replay' = Recorded(0, << >>)
         ELSE \E g \in SeededOutcomes(JastrowIndex(hop)[1], JastrowIndex(hop)[2]) :
              \E rnd \in RoundingsReplayed(accept_prob(R_j(hop, g), hop)) :
              LET p == Rounded(accept_prob(R_j(hop, g), hop), rnd)
                  u == UniformReal(rng[3])
                  after == AfterTest(hop, p, u)
              IN  /\ econf' = after.econf
                  /\ W' = after.W
                  /\ T' = after.T
                  /\ updates_since_WT_recalc' = after.since
                  /\ pc' = (IF after.failed = "none" THEN next_pc ELSE "aborted")
                  /\ last' = Evaluated(hop, g, p, u, after)
                  /\ rng' = SubSeq(rng, 3 + AcceptDraws(p), Len(rng))
                  /\ replay' = Recorded(rnd, [rd \in { JastrowIndex(hop) } |-> g])

\* one iteration of the loop of mcs() of a seeded walker
SeededMcsStep ==
  /\ pc = "mcs"
  /\ mcs_continue(s)
  /\ metstep_seeded("mcs")
  /\ s' = s + 1
  /\ hist' = [hist EXCEPT !.steps = @ + 1]
  /\ UNCHANGED << inputs, completed_mcsteps, n, N_mcs_equil, caller,
                  el, cache, model, obs_hist >>

\* a second walker that shares the first walker's random source instead of
\* holding its own copy of it
MutSecondWalker ==
  /\ pc = "idle"
  /\ replay.run = 1
  /\ Len(replay.trace) >= 1
  /\ econf' = replay.start.econf
  /\ W' = calc_new_W(replay.start.econf)
  /\ T' = calc_new_T(replay.start.econf)
  /\ rng' = rng
  /\ completed_mcsteps' = 0
  /\ updates_since_WT_recalc' = 0
  /\ s' = 0
  /\ last' = NoStep
  /\ hist' = [sweeps |-> 0, entry |-> 0, steps |-> 0, resampled |-> FALSE]
  /\ replay' = [replay EXCEPT !.run = 2, !.idx = 0]
  /\ UNCHANGED << inputs, pc, n, N_mcs_equil, caller, el, cache, model,
                  obs_hist >>

\* the second walker: the members as the first walker had them after its
\* construction, the random source in the same state
SecondWalker ==
  /\ pc = "idle"
  /\ replay.run = 1
  /\ Len(replay.trace) >= 1
  /\ econf' = replay.start.econf
  /\ W' = calc_new_W(replay.start.econf)
  /\ T' = calc_new_T(replay.start.econf)
  /\ rng' = replay.start.rng
  /\ completed_mcsteps' = 0
  /\ updates_since_WT_recalc' = 0
  /\ s' = 0
  /\ last' = NoStep
  /\ hist' = [sweeps |-> 0, entry |-> 0, steps |-> 0, resampled |-> FALSE]
  /\ replay' = [replay EXCEPT !.run = 2, !.idx = 0]
  /\ UNCHANGED << inputs, pc, n, N_mcs_equil, caller, el, cache, model,
                  obs_hist >>

\* seeded walkers driven by sweeps, one after the other
NextSeeded ==
  \/ CallMcs
  \/ SeededMcsStep
  \/ McsReturn
  \/ SecondWalker

SpecSeeded == InitSeeded /\ [][NextSeeded]_vars

(***************************************************************************)
(* E_l.  The local energy is a sum of terms q * exp(m) of different m; it   *)
(* is kept as the function that gives every exponent m its coefficient, so  *)
(* two energies are equal exactly when their functions are.                 *)
(***************************************************************************)
\* the exponents a local energy of the explored walkers can hold
ExpRange == (0 - 12)..12

PZero == [m \in ExpRange |-> RZero]

\* the number x = q * exp(e) as a sum of one term
PTerm(x) ==
  IF x.e \in ExpRange
  THEN [m \in ExpRange |-> IF m = x.e THEN x.q ELSE RZero]
  ELSE Undecided

PAdd(a, b) == [m \in ExpRange |-> RAdd(a[m], b[m])]
PScale(a, r) == [m \in ExpRange |-> RMul(a[m], r)]

RECURSIVE PSumOver(_, _)
\* the sum of f[x] over the x of the finite set S
PSumOver(f, S) ==
  IF S = { } THEN PZero
  ELSE LET x == CHOOSE y \in S : TRUE
       IN  PAdd(f[x], PSumOver(f, S \ { x }))

\* econf.get_num_dblocc(): the sites that hold an electron of either spin
get_num_dblocc(ec) ==
  Cardinality({ j \in Sites :
                  /\ get_site_occ(ec, j) = ELECTRON_OCCUPATION_FULL
                  /\ get_site_occ(ec, j + L) = ELECTRON_OCCUPATION_FULL })

\* the pairs of indices E_l hands to the table v for the configuration ec
EnergyReads(ec) ==
  { rd \in SpinOrbitals \X SpinOrbitals :
      \E k \in 0..(ec.electron_number - 1) : \E X \in 1..Len(t) :
        /\ t[X] # RZero
        /\ rd[2] = get_electron_pos(ec, k)
        /\ rd[1] \in get_Xnn(rd[2], X)
        /\ get_site_occ(ec, rd[1]) = ELECTRON_OCCUPATION_EMPTY }

\* what the reads of v of a call of E_l can yield: the table and the memory
\* around it do not change, so an index pair read by an earlier call (kept
\* in el.mem) yields what it yielded then
EnergyMemories(ec) ==
  { mem \in [EnergyReads(ec) -> OobReads \cup { v[i][j] : i, j \in Sites }] :
      \A rd \in EnergyReads(ec) :
        /\ mem[rd] \in JastrowOutcomes(rd[1], rd[2])
        /\ rd \in DOMAIN el.mem => mem[rd] = el.mem[rd] }

\* E_l that takes every ratio from the column of the first electron
MutElOf(ec, Wm, mem) ==
  LET hop_to(k, l) == propose_random_hop(ec, k, l)
      sum_Xnn(k, X) ==
        LET k_pos_Xnn == get_Xnn(get_electron_pos(ec, k), X)
            empty == { l \in k_pos_Xnn :
                         get_site_occ(ec, l) = ELECTRON_OCCUPATION_EMPTY }
        IN  PSumOver(
              [l \in empty |->
                 PTerm(EScale(R_j(hop_to(k, l),
                                  mem[<< l, get_electron_pos(ec, k) >>]),
                              Wm[l][0]))], empty)
      kin_of(k) ==
        LET classes == { X \in 1..Len(t) : t[X] # RZero }
        IN  PSumOver([X \in classes |->
                        PScale(sum_Xnn(k, X), RSub(RZero, t[X]))], classes)
      electrons == 0..(ec.electron_number - 1)
      E_l_kin == PSumOver([k \in electrons |-> kin_of(k)], electrons)
  IN  [ ret |-> PScale(PAdd(E_l_kin,
                            PTerm(ENum(RMul(U, RInt(get_num_dblocc(ec))), 0))),
                       Rat(1, L)),
        assert_ok |-> \A k \in electrons :
                        get_site_occ(ec, get_electron_pos(ec, k))
                          = ELECTRON_OCCUPATION_FULL ]

\* E_l for the electron configuration ec and the ratio matrix Wm, mem being
\* what the reads of v yield; assert_ok tells whether the assert held
E_l_of(ec, Wm, mem) ==
  LET hop_to(k, l) == propose_random_hop(ec, k, l)
      sum_Xnn(k, X) ==
        LET k_pos_Xnn == get_Xnn(get_electron_pos(ec, k), X)
            empty == { l \in k_pos_Xnn :
                         get_site_occ(ec, l) = ELECTRON_OCCUPATION_EMPTY }
        IN  PSumOver(
              [l \in empty |->
                 PTerm(EScale(R_j(hop_to(k, l),
                                  mem[<< l, get_electron_pos(ec, k) >>]),
                              Wm[l][k]))], empty)
      kin_of(k) ==
        LET classes == { X \in 1..Len(t) : t[X] # RZero }
        IN  PSumOver([X \in classes |->
                        PScale(sum_Xnn(k, X), RSub(RZero, t[X]))], classes)
      electrons == 0..(ec.electron_number - 1)
      E_l_kin == PSumOver([k \in electrons |-> kin_of(k)], electrons)
  IN  [ ret |-> PScale(PAdd(E_l_kin,
                            PTerm(ENum(RMul(U, RInt(get_num_dblocc(ec))), 0))),
                       Rat(1, L)),
        assert_ok |-> \A k \in electrons :
                        get_site_occ(ec, get_electron_pos(ec, k))
                          = ELECTRON_OCCUPATION_FULL ]

E_l(mem) == E_l_of(econf, W, mem)

\* a call of E_l() that recalculates W and T before it sums
MutCallEl ==
  /\ pc = "idle"
  /\ el.calls < 2 \/ el.stamp # completed_mcsteps
  /\ \E mem \in EnergyMemories(econf) :
       LET res == E_l(mem)
           again == el.calls >= 1 /\ el.stamp = completed_mcsteps
       IN  /\ el' = [ calls |-> IF again THEN el.calls + 1 ELSE 1,
                      ret |-> res.ret,
                      stamp |-> completed_mcsteps,
                      same |-> IF again THEN el.same /\ res.ret = el.ret
                               ELSE TRUE,
                      mem |-> [rd \in DOMAIN el.mem \cup DOMAIN mem |->
                                 IF rd \in DOMAIN mem THEN mem[rd]
                                 ELSE el.mem[rd]] ]
           /\ pc' = (IF res.assert_ok THEN "idle" ELSE "aborted")
  /\ W' = calc_new_W(econf)
  /\ T' = calc_new_T(econf)
  /\ updates_since_WT_recalc' = 0
  /\ UNCHANGED << inputs, econf, completed_mcsteps,
                  s, n, N_mcs_equil, caller, last,
                  hist, rng, replay, cache, model, obs_hist >>

\* the user calls E_l() between two driver calls; the history keeps the
\* value returned, the sweep counter at the call, whether every call since
\* the last step has returned the same value, and what the reads of v have
\* yielded
CallEl ==
  /\ pc = "idle"
  /\ el.calls < 2 \/ el.stamp # completed_mcsteps
  /\ \E mem \in EnergyMemories(econf) :
       LET res == E_l(mem)
           again == el.calls >= 1 /\ el.stamp = completed_mcsteps
       IN  /\ el' = [ calls |-> IF again THEN el.calls + 1 ELSE 1,
                      ret |-> res.ret,
                      stamp |-> completed_mcsteps,
                      same |-> IF again THEN el.same /\ res.ret = el.ret
                               ELSE TRUE,
                      mem |-> [rd \in DOMAIN el.mem \cup DOMAIN mem |->
                                 IF rd \in DOMAIN mem THEN mem[rd]
                                 ELSE el.mem[rd]] ]
           /\ pc' = (IF res.assert_ok THEN "idle" ELSE "aborted")
  /\ UNCHANGED << inputs, econf, W, T, completed_mcsteps,
                  updates_since_WT_recalc, s, n, N_mcs_equil, caller, last,
                  hist, rng, replay, cache, model, obs_hist >>

\* the walkers whose local energy is explored
EnergyWalkers ==
  { [L |-> 2, N |-> 2, M |-> MIndex(2, 2), v |-> VOnsite(2), maxdist |-> 1,
      t |-> << ROne >>, U |-> ROne],
    [L |-> 3, N |-> 1, M |-> MIndex(3, 1), v |-> VUpper(3), maxdist |-> 1,
      t |-> << Rat(1, 2), ROne >>, U |-> RInt(2)],
    [L |-> 2, N |-> 2, M |-> MSite(2, 2), v |-> VUpper(2), maxdist |-> 1,
      t |-> << RZero >>, U |-> ROne] }

InitEnergy == \E w \in EnergyWalkers : Constructed(w, MaxThreshold)

\* the user calls mcs() and E_l()
NextEnergy ==
  \/ ConstructResample
  \/ ConstructFinish
  \/ CallMcs
  \/ McsStep
  \/ McsReturn
  \/ CallEl

SpecEnergy == InitEnergy /\ [][NextEnergy]_vars

(***************************************************************************)
(* The spin-spin correlation observable (src/obs_sscorr.cpp).  A vector is  *)
(* the record of its scalar type and its coefficients.                      *)
(***************************************************************************)
\* the vectors the model's s() evaluates to
ModelVectors ==
  { [type |-> "fptype", coeffs |-> cs] : cs \in { << >>, << 0 >>, << 1 >>, << 1, 0 >> } }

\* vec.cast<double>(): every coefficient converted, none changed in value
cast_double(vec) == [type |-> "double", coeffs |-> vec.coeffs]

\* get_current that evaluates the model whatever the cache holds
MutGetCurrent ==
  /\ obs_hist.calls < MaxCalls
  /\ LET filled == model.s
     IN  /\ cache' = [cache EXCEPT !.s = filled]
         /\ obs_hist' =
              [ calls |-> obs_hist.calls + 1,
                evaluations |-> obs_hist.evaluations + 1,
                first |-> IF obs_hist.calls = 0 THEN cast_double(filled)
                          ELSE obs_hist.first,
                ret |-> cast_double(filled) ]
  /\ UNCHANGED << inputs, econf, W, T, completed_mcsteps,
                  updates_since_WT_recalc, pc, s, n, N_mcs_equil, caller, last,
                  hist, rng, replay, el, model >>

\* get_current( model, cache ): fills the cache entry from the model when
\* it is empty, and returns the entry cast to double
GetCurrent ==
  /\ obs_hist.calls < MaxCalls
  /\ LET filled == IF cache.s = Unset THEN model.s ELSE cache.s
     IN  /\ cache' = [cache EXCEPT !.s = filled]
         /\ obs_hist' =
              [ calls |-> obs_hist.calls + 1,
                evaluations |-> IF cache.s = Unset THEN obs_hist.evaluations + 1
                                ELSE obs_hist.evaluations,
                first |-> IF obs_hist.calls = 0 THEN cast_double(filled)
                          ELSE obs_hist.first,
                ret |-> cast_double(filled) ]
  /\ UNCHANGED << inputs, econf, W, T, completed_mcsteps,
                  updates_since_WT_recalc, pc, s, n, N_mcs_equil, caller, last,
                  hist, rng, replay, el, model >>

\* the model moves on between two calls: s() evaluates to another vector
ModelChanges ==
  /\ \E vec \in ModelVectors : vec # model.s /\ model' = [model EXCEPT !.s = vec]
  /\ UNCHANGED << inputs, econf, W, T, completed_mcsteps,
                  updates_since_WT_recalc, pc, s, n, N_mcs_equil, caller, last,
                  hist, rng, replay, el, cache, obs_hist >>

\* one cache with an empty entry, and a model
InitObservable == \E w \in DriverWalkers : Constructed(w, 0)

NextObservable ==
  \/ GetCurrent
  \/ ModelChanges

SpecObservable == InitObservable /\ [][NextObservable]_vars

(***************************************************************************)
(* Properties.                                                             *)
(***************************************************************************)
\* a transition that runs one metstep()
StepTaken == pc = "mcs" /\ s' = s + 1

\* M * D^-1 for the current configuration, from the definition of W
RatioFromScratch == MatMul(M, Inverse(calc_D(econf), N), 2 * L, N, N)

\* the number of electrons, of either spin, on site j
Occupation(ec, j) ==
  Cardinality({ eid \in 0..(ec.electron_number - 1) :
                  get_spinup_site(ec.electron_pos[eid]) = j })

\* exp( sum_j v[i][j] * n[j] ) for the configuration ec, from the definition of T
CorrelationFromScratch(ec) ==
  [i \in Sites |-> Exp(ISum([j \in Sites |-> v[i][j] * Occupation(ec, j)], 0, L))]

\* the hop that leads from econf to econf', when one electron has moved
CommittedHop ==
  LET k == CHOOSE e \in Electrons : econf.electron_pos[e] # econf'.electron_pos[e]
  IN  [ k |-> k, k_pos |-> econf.electron_pos[k], l |-> econf'.electron_pos[k],
        possible |-> TRUE ]

\* C1: while quick updates have been applied since the last exact computation
\* (1 up to the threshold of them), W equals M * D^-1 of the current
\* configuration, and the assert that compares the updated W with the
\* recalculated W has not failed.
C1_QuickWEqualsRecomputed ==
  /\ last.failed # "W"
  /\ (pc # "construct" /\ updates_since_WT_recalc >= 1) =>
       /\ updates_since_WT_recalc <= updates_until_WT_recalc
       /\ isInvertible(calc_D(econf), N)
       /\ W = RatioFromScratch

\* C1 witness: a quick update has just brought the counter to a threshold
\* of at least 2 and W has an entry that is not an integer.
C1_Witness ==
  /\ last.ret /\ last.mode = "quick"
  /\ updates_until_WT_recalc >= 2
  /\ updates_since_WT_recalc = updates_until_WT_recalc
  /\ \E i \in SpinOrbitals : \E j \in Electrons : W[i][j][2] # 1

\* C2: after construction, T(i) = exp( sum_j v(i,j) * n(j) ) for every site i,
\* n(j) being the number of electrons of either spin on site j, and the
\* assert that compares the updated T with the recalculated T has not failed.
C2_TEqualsDefinition ==
  /\ last.failed # "T"
  /\ pc # "construct" => T = CorrelationFromScratch(econf)

\* C2 witness: a spin-down hop has just been handled by the second quick
\* update in a row, and T is not constant.
C2_Witness ==
  /\ last.ret /\ last.mode = "quick" /\ ~ last.in_table
  /\ updates_since_WT_recalc >= 2
  /\ \E i, j \in Sites : T[i] # T[j]

\* C3: an accepted hop is handled by exactly one strategy: with the counter
\* at or above the threshold W and T are recalculated and the counter becomes
\* 0, otherwise W and T get the quick update and the counter grows by one; no
\* other transition changes the counter.
C3_OneStrategyPerAcceptedHop ==
  [][ /\ (pc # "construct" /\ econf' # econf) =>
           IF updates_since_WT_recalc >= updates_until_WT_recalc
           THEN /\ updates_since_WT_recalc' = 0
                /\ last'.mode = "recalc"
                /\ W' = calc_new_W(econf')
                /\ T' = calc_new_T(econf')
           ELSE /\ updates_since_WT_recalc' = updates_since_WT_recalc + 1
                /\ last'.mode = "quick"
                /\ W' = calc_updated_W(CommittedHop)
                /\ T' = calc_updated_T(CommittedHop)
      /\ (pc = "construct" \/ econf' = econf) =>
           updates_since_WT_recalc' = updates_since_WT_recalc ]_vars

\* C3 witness: with a threshold of at least 1, the counter had reached the
\* threshold and the hop just accepted was handled by recalculation.
C3_Witness ==
  /\ last.ret /\ last.mode = "recalc"
  /\ updates_until_WT_recalc >= 1
  /\ updates_since_WT_recalc = 0

\* C4: a metstep() is one trial move; its return value tells whether the hop
\* was committed; a feasible proposal is accepted exactly when p >= 1 or the
\* draw u is below p; no draw is consumed when p >= 1 and one when p < 1.
C4_AcceptanceRule ==
  [][ StepTaken =>
        /\ last'.ran
        /\ hist'.steps = hist.steps + 1
        /\ last'.ret <=> (econf' # econf)
        /\ ~ last'.evaluated => ~ last'.ret
        /\ last'.evaluated =>
             /\ last'.ret <=> (last'.ge_one \/ last'.below)
             /\ last'.ge_one => last'.draws = 0
             /\ ~ last'.ge_one => last'.draws = 1 ]_vars

\* C4 witness: a feasible hop with p < 1 has just been accepted by its draw.
C4_Witness ==
  /\ last.evaluated /\ ~ last.ge_one /\ last.draws = 1 /\ last.below /\ last.ret

\* C5: a metstep() that returns false leaves the configuration, W, T and both
\* counters as they were; for an infeasible proposal the acceptance
\* probability is not evaluated and no draw is consumed.
C5_RejectionChangesNothing ==
  [][ (StepTaken /\ ~ last'.ret) =>
        /\ UNCHANGED << econf, W, T, updates_since_WT_recalc, completed_mcsteps >>
        /\ ~ last'.possible => (~ last'.evaluated /\ last'.draws = 0) ]_vars

\* C5 witness: a feasible hop of nonzero probability has just been rejected
\* by its draw.
C5_Witness ==
  /\ last.evaluated /\ ~ last.ret /\ last.draws = 1 /\ ~ last.zero_ratio

\* C6: an accepted step moves exactly one electron to a spin-orbital that was
\* empty, runs the maintainer once, and leaves W and T as M * D^-1 and the
\* definition of T give them for the configuration after the hop.
C6_MaintainerSeesCommittedHop ==
  [][ (StepTaken /\ last'.ret) =>
        /\ \E k \in Electrons : \E l \in SpinOrbitals :
             /\ propose_random_hop(econf, k, l).possible
             /\ econf' = do_hop(econf, propose_random_hop(econf, k, l))
        /\ last'.mode \in { "recalc", "quick" }
        /\ updates_since_WT_recalc' \in { 0, updates_since_WT_recalc + 1 }
        /\ isInvertible(calc_D(econf'), N)
        /\ W' = MatMul(M, Inverse(calc_D(econf'), N), 2 * L, N, N)
        /\ T' = CorrelationFromScratch(econf') ]_vars

\* C6 witness: with threshold 0 a hop has just been accepted and handled by
\* recalculation.
C6_Witness ==
  /\ last.ret /\ last.mode = "recalc" /\ updates_until_WT_recalc = 0

\* C7: after construction D is invertible, no assert has failed, and no hop
\* whose ratio W(l,k) is zero has been accepted.
C7_DStaysInvertible ==
  pc # "construct" =>
    /\ isInvertible(calc_D(econf), N)
    /\ pc # "aborted"
    /\ last.failed = "none"
    /\ ~ (last.ret /\ last.zero_ratio)

\* C7 witness: a feasible hop with W(l,k) = 0 has just been rejected.
C7_Witness ==
  /\ last.evaluated /\ last.zero_ratio /\ ~ last.ret /\ last.draws = 1

\* C8: whenever metstep() evaluates the Jastrow ratio, both indices it hands
\* to the table v lie in [0, L) and the ratio equals the one obtained with
\* the table read at the sites of l and k_pos.
C8_JastrowReadAtSites ==
  last.evaluated => (last.in_table /\ last.by_sites)

\* C9: the counter never goes below zero; between driver calls it equals the
\* number of mcs() calls the user made, and inside equilibrate( k ) it equals
\* its value at the call plus the sweeps run so far, so equilibrate( k )
\* returns with the value it was called with.
C9_EquilibrateKeepsCounter ==
  /\ completed_mcsteps >= 0
  /\ pc = "idle" => completed_mcsteps = hist.sweeps
  /\ pc = "equilibrate" => completed_mcsteps = hist.entry + n

\* C9 witness: equilibrate( k ), k >= 1, was called on the fresh walker and
\* has returned, one mcs() followed, and the counter is 1.
C9_Witness ==
  /\ pc = "idle"
  /\ N_mcs_equil >= 1 /\ n = N_mcs_equil /\ hist.entry = 0
  /\ hist.sweeps = 1
  /\ completed_mcsteps = 1

\* C10: mcs() counts the sweep only after N calls of metstep(), by exactly
\* one, no transition leaves the loop otherwise, and a running mcs() returns.
C10_SweepIsNSteps ==
  /\ [][ pc = "mcs" =>
           /\ completed_mcsteps' # completed_mcsteps =>
                (hist.steps = N /\ completed_mcsteps' = completed_mcsteps + 1)
           /\ pc' # "mcs" => completed_mcsteps' = completed_mcsteps + 1
           /\ hist.steps <= N ]_vars
  /\ (pc = "mcs") ~> (pc = "idle" \/ pc = "equilibrate")

\* C10 witness: an mcs() called by the user has returned after a rejected, an
\* infeasible or an accepted last step.
C10_Witness ==
  /\ pc = "idle" /\ hist.steps = N /\ N >= 2 /\ completed_mcsteps >= 1

\* the loop of mcs() can go on: an iteration can propose a hop, or the loop
\* is over and mcs() can return
McsLoopEnabled ==
  /\ pc = "mcs"
  /\ mcs_continue(s) =>
       \E k \in Electrons : HopTargets(get_electron_pos(econf, k)) # { }

\* a transition of the loop of mcs(): an iteration or the return
McsLoopStep == pc = "mcs" /\ (s' = s + 1 \/ pc' # "mcs")

\* the small walkers under a sequential driver: a loop of mcs() that can go
\* on does go on (weak fairness of the loop, its enabling condition written
\* out)
SpecDriverFair ==
  SpecDriver /\ ([]<>(~ McsLoopEnabled) \/ []<><<McsLoopStep>>_vars)

SomeInvertible == \E ec \in distribute_random(L, N) : isInvertible(calc_D(ec), N)

\* the constructor's loop is left as soon as D is invertible, and a
\* resampling that can draw a configuration of invertible D again and
\* again does draw one (the enabling conditions written out)
ConstructionFair ==
  /\ \/ []<>(~ (pc = "construct" /\ isInvertible(calc_D(econf), N)))
     \/ []<><< pc = "construct" /\ pc' # "construct" >>_vars
  /\ \/ <>[](~ (pc = "construct" /\ ~ isInvertible(calc_D(econf), N)
                   /\ SomeInvertible))
     \/ []<><< pc = "construct" /\ pc' = "construct"
                /\ isInvertible(calc_D(econf'), N) >>_vars

\* every explored walker, built by a fair constructor and driven by sweeps
SpecConstructFair == Spec /\ ConstructionFair

\* C12: the constructor completes only with an invertible D, and then
\* W = M * D^-1 and T is as its definition gives it for the final
\* configuration, both counters are 0 and no metstep() has run; D stays
\* invertible afterwards; and when some configuration has an invertible D,
\* the constructor completes.
C12_ConstructionCompletes ==
  /\ [][ (pc = "construct" /\ pc' # "construct") =>
           /\ isInvertible(calc_D(econf'), N)
           /\ W' = MatMul(M, Inverse(calc_D(econf'), N), 2 * L, N, N)
           /\ T' = CorrelationFromScratch(econf')
           /\ completed_mcsteps' = 0
           /\ updates_since_WT_recalc' = 0
           /\ ~ last'.ran
           /\ hist'.steps = 0 ]_vars
  /\ [](pc = "idle" => isInvertible(calc_D(econf), N))
  /\ (pc = "construct" /\ SomeInvertible) ~> (pc # "construct")

\* C12 witness: the constructor has resampled a configuration of singular D
\* and has completed.
C12_Witness ==
  /\ pc = "idle" /\ hist.resampled
  /\ completed_mcsteps = 0 /\ updates_since_WT_recalc = 0 /\ ~ last.ran
  /\ W = RatioFromScratch

\* the hops E_l sums over: electron k, distance class X of nonzero amplitude,
\* target l at distance X from the electron's position and empty
EnergyHops ==
  { h \in Electrons \X (1..Len(t)) \X SpinOrbitals :
      /\ t[h[2]] # RZero
      /\ h[3] \in get_Xnn(get_electron_pos(econf, h[1]), h[2])
      /\ get_site_occ(econf, h[3]) = ELECTRON_OCCUPATION_EMPTY }

\* ( E_kin + U * double occupancies ) / L from the definition, the ratio R
\* being the one with the table read at the sites of l and k_pos
EnergyFromDefinition ==
  PScale(
    PAdd(PSumOver(
           [h \in EnergyHops |->
              PScale(PTerm(EScale(RatioBySites(propose_random_hop(econf, h[1], h[3])),
                                  W[h[3]][h[1]])),
                     RSub(RZero, t[h[2]]))], EnergyHops),
         PTerm(ENum(RMul(U, RInt(Cardinality(
                 { j \in Sites : Occupation(econf, j) = 2 }))), 0))),
    Rat(1, L))

\* a call of E_l() has returned and no step has run since
EnergyKnown == pc = "idle" /\ el.calls >= 1 /\ el.stamp = completed_mcsteps

\* C13: the value E_l() returns is ( E_kin + U * double occupancies ) / L,
\* E_kin being the sum over the electrons k, the distance classes X of
\* nonzero amplitude and the empty sites l at distance X from k's position
\* of - t[X] * R * W[l,k].
C13_EnergyIsDefinition ==
  EnergyKnown => el.ret = EnergyFromDefinition

\* the relabellings of the electrons
Relabellings ==
  { pi \in [Electrons -> Electrons] : \A a, b \in Electrons : a # b => pi[a] # pi[b] }

\* the configuration in which electron k sits where electron pi[k] sits in ec
Relabelled(ec, pi) ==
  [ec EXCEPT !.electron_pos = [k \in Electrons |-> ec.electron_pos[pi[k]]]]

\* the matrix Wm with its columns permuted as pi permutes the electrons
ColumnsPermuted(Wm, pi) ==
  [i \in SpinOrbitals |-> [k \in Electrons |-> Wm[i][pi[k]]]]

\* C14: for every relabelling of the electrons, which leaves the occupied
\* spin-orbitals as they are, the permuted W is M * D^-1 of the relabelled
\* configuration and E_l() of the relabelled walker, with the table and the
\* memory around it as they are, returns the value E_l() has returned.
C14_EnergyIgnoresLabels ==
  EnergyKnown =>
    \A pi \in Relabellings :
      LET ec == Relabelled(econf, pi)
          Wm == ColumnsPermuted(W, pi)
      IN  /\ ec.site_occ = econf.site_occ
          /\ Wm = calc_new_W(ec)
          /\ EnergyReads(ec) \subseteq DOMAIN el.mem
          /\ E_l_of(ec, Wm, el.mem).ret = el.ret

\* E_l() has returned for two electrons whose columns of W differ, one of
\* them a spin-down electron with an empty neighbour
C14_Witness ==
  /\ EnergyKnown
  /\ N = 2
  /\ \E i \in SpinOrbitals : W[i][0] # W[i][1]
  /\ \E h \in EnergyHops : h[3] >= L /\ W[h[3]][h[1]] # RZero

\* C15: a call of E_l() leaves the configuration, W, T, the random source
\* and both counters as they were, and the calls made with no step in
\* between have all returned the same value.
C15_EnergyReadOnly ==
  /\ [][ el' # el =>
           UNCHANGED << econf, W, T, rng, completed_mcsteps,
                        updates_since_WT_recalc >> ]_vars
  /\ [](el.same)

\* E_l() has been called twice in a row after a sweep that has left the
\* counter of quick updates above 0, with a term of a spin-down electron
C15_Witness ==
  /\ EnergyKnown
  /\ el.calls >= 2
  /\ completed_mcsteps >= 1
  /\ updates_since_WT_recalc >= 1
  /\ \E h \in EnergyHops : h[3] >= L /\ W[h[3]][h[1]] # RZero

\* C16: the counter of quick updates stays between 0 and the threshold; an
\* accepted hop that finds the counter at the threshold is handled by the
\* exact recomputation, which leaves the counter at 0, and with threshold 0
\* every accepted hop is.
C16_CounterWithinThreshold ==
  /\ [](/\ 0 <= updates_since_WT_recalc
        /\ updates_since_WT_recalc <= updates_until_WT_recalc)
  /\ [][ (StepTaken /\ last'.ret) =>
           /\ updates_since_WT_recalc = updates_until_WT_recalc =>
                /\ last'.mode = "recalc"
                /\ updates_since_WT_recalc' = 0
                /\ W' = calc_new_W(econf')
                /\ T' = calc_new_T(econf')
           /\ updates_until_WT_recalc = 0 => last'.mode = "recalc"
           /\ last'.mode = "quick" =>
                updates_since_WT_recalc < updates_until_WT_recalc ]_vars

\* C16 witness: with a threshold of at least 2 the quick updates have brought
\* the counter to the threshold and the next accepted hop has been handled
\* by the exact recomputation.
C16_Witness ==
  /\ updates_until_WT_recalc >= 2
  /\ last.ret /\ last.mode = "recalc"
  /\ updates_since_WT_recalc = 0
  /\ hist.steps > updates_until_WT_recalc \/ completed_mcsteps >= 1

\* C17: in every state the configuration places N electrons on N different
\* spin-orbitals and every electron's position is an occupied spin-orbital
\* (the assert of E_l); a metstep() changes the configuration only for a
\* proposal flagged feasible, and after construction every electron stays
\* in its spin sector.
C17_ConfigurationStaysValid ==
  /\ [](/\ Cardinality({ i \in SpinOrbitals :
                            get_site_occ(econf, i) = ELECTRON_OCCUPATION_FULL }) = N
        /\ \A a, b \in Electrons :
             a # b => get_electron_pos(econf, a) # get_electron_pos(econf, b)
        /\ \A k \in Electrons :
             get_site_occ(econf, get_electron_pos(econf, k))
               = ELECTRON_OCCUPATION_FULL)
  /\ [][ /\ (StepTaken /\ econf' # econf) => (last'.possible /\ last'.ret)
         /\ pc # "construct" =>
              \A k \in Electrons :
                get_index_spin(get_electron_pos(econf', k))
                  = get_index_spin(get_electron_pos(econf, k)) ]_vars

\* C17 witness: after an accepted hop, a proposal to an occupied
\* spin-orbital has just been turned down.
C17_Witness ==
  /\ last.ran /\ ~ last.possible
  /\ updates_since_WT_recalc >= 1
  /\ hist.steps >= 2

\* C18: on one cache, s() of the model is evaluated at most once, every
\* get_current() returns what the first one returned, an entry that is set
\* is never changed, whatever the model has become, and a call that finds
\* the entry empty fills it with what s() evaluates to and returns that.
C18_CacheFilledOnce ==
  /\ [](/\ obs_hist.evaluations <= 1
        /\ obs_hist.calls >= 1 =>
             /\ obs_hist.ret = obs_hist.first
             /\ obs_hist.evaluations = 1
             /\ cache.s # Unset
             /\ obs_hist.ret = cast_double(cache.s))
  /\ [][ /\ cache.s # Unset => cache'.s = cache.s
         /\ (cache.s = Unset /\ obs_hist'.calls = obs_hist.calls + 1) =>
              /\ cache'.s = model.s
              /\ obs_hist'.ret = cast_double(model.s)
              /\ obs_hist'.ret.type = "double"
         /\ obs_hist'.calls = obs_hist.calls => cache'.s = cache.s ]_vars

\* C18 witness: the entry was filled, the model has changed since, and a
\* later get_current() has returned the cached vector.
C18_Witness ==
  /\ obs_hist.calls >= 2
  /\ cache.s # Unset /\ cache.s # model.s
  /\ obs_hist.ret = cast_double(cache.s)
  /\ obs_hist.ret.coeffs # << >>

====
